---- MODULE Spec2Model ----
(***************************************************************************)
(* A model of sheets, a terminal spreadsheet: the formula evaluator of     *)
(* eval.c and the grid, recalculation and modal key handling of sheets.c.  *)
(*                                                                         *)
(* Characters are their ASCII codes; a C string is the sequence of its     *)
(* characters before the terminating NUL, and reading the position just    *)
(* after the last character yields NUL (0). Positions are 1-based.         *)
(***************************************************************************)
EXTENDS Integers, Sequences, FiniteSets, TLC

-----------------------------------------------------------------------------
(* Bounds of the model. *)

\* number of columns and rows of the grid (26 and 100 in config.def.h)
maxcols == 2
maxrows == 2
\* size of a text buffer, terminating NUL included (256 in sheets.c)
CELLTEXT == 4
\* number of keys one session handles
MaxKeys == 5
\* number of operators of a generated arithmetic formula
MaxOps == 2
\* length of a generated formula of arbitrary characters
MaxLen == 4
\* length of a cell text of a grid written to a file and read back
MaxText == 2
\* size of the terminal
LINES == 3
COLS == 14

-----------------------------------------------------------------------------
(* Characters. *)

Printable ==
  << " ", "!", "\"", "#", "$", "%", "&", "'", "(", ")", "*", "+", ",", "-",
     ".", "/", "0", "1", "2", "3", "4", "5", "6", "7", "8", "9", ":", ";",
     "<", "=", ">", "?", "@", "A", "B", "C", "D", "E", "F", "G", "H", "I",
     "J", "K", "L", "M", "N", "O", "P", "Q", "R", "S", "T", "U", "V", "W",
     "X", "Y", "Z", "[", "\\", "]", "^", "_", "BACKQUOTE", "a", "b", "c", "d", "e",
     "f", "g", "h", "i", "j", "k", "l", "m", "n", "o", "p", "q", "r", "s",
     "t", "u", "v", "w", "x", "y", "z", "{", "|", "}", "~" >>

\* the ASCII code of a printable character given as a one-character string
Code(c) == 31 + CHOOSE i \in 1..Len(Printable) : Printable[i] = c

\* the C string of a sequence of one-character strings
Str(q) == [i \in 1..Len(q) |-> Code(q[i])]

NUL == 0
TAB == 9
chSpace == Code(" ")
chLParen == Code("(")
chRParen == Code(")")
chStar == Code("*")
chPlus == Code("+")
chMinus == Code("-")
chDot == Code(".")
chSlash == Code("/")
chColon == Code(":")
chEquals == Code("=")
chBang == Code("!")
ch0 == Code("0")
ch9 == Code("9")
chA == Code("A")
chZ == Code("Z")
chLowA == Code("a")
chLowZ == Code("z")

\* *(s + p - 1) of a C string: the character at p, NUL just after the end
At(s, p) == IF p >= 1 /\ p <= Len(s) THEN s[p] ELSE NUL

isupper(c) == c >= chA /\ c <= chZ
islower(c) == c >= chLowA /\ c <= chLowZ
isdigit(c) == c >= ch0 /\ c <= ch9
isspace(c) == c = chSpace \/ (c >= TAB /\ c <= TAB + 4)
toupper(c) == IF islower(c) THEN c - 32 ELSE c

\* the bytes of s up to its first NUL: what a C string function reads
RECURSIVE CStr(_)
CStr(s) == IF s = << >> \/ Head(s) = NUL THEN << >> ELSE << Head(s) >> \o CStr(Tail(s))

\* snprintf(dst, n, "%s", s): at most n - 1 characters of s
Trunc(s, n) == IF Len(s) > n - 1 THEN SubSeq(s, 1, n - 1) ELSE s

-----------------------------------------------------------------------------
(* Values: a double is modelled as a normalised fraction n/d with d > 0,   *)
(* +infinity as 1/0, -infinity as -1/0 and NaN as 0/0. Rounding and the    *)
(* sign of zero are not modelled.                                          *)

Abs(x) == IF x < 0 THEN -x ELSE x

RECURSIVE GCD(_, _)
GCD(a, b) == IF b = 0 THEN a ELSE GCD(b, a % b)

Frac(n, d) ==
  LET g == GCD(Abs(n), Abs(d))
      s == IF d < 0 THEN -1 ELSE 1
  IN  IF d = 0 THEN [n |-> IF n > 0 THEN 1 ELSE IF n < 0 THEN -1 ELSE 0, d |-> 0]
      ELSE [n |-> s * (n \div g), d |-> s * (d \div g)]

Num(n) == [n |-> n, d |-> 1]
Zero == Num(0)
NaN == [n |-> 0, d |-> 0]
PosInf == [n |-> 1, d |-> 0]
NegInf == [n |-> -1, d |-> 0]

IsNaN(a) == a.d = 0 /\ a.n = 0
IsInf(a) == a.d = 0 /\ a.n # 0

Neg(a) == [n |-> -a.n, d |-> a.d]

Add(a, b) ==
  IF IsNaN(a) \/ IsNaN(b) THEN NaN
  ELSE IF IsInf(a) /\ IsInf(b) THEN (IF a.n = b.n THEN a ELSE NaN)
  ELSE IF IsInf(a) THEN a
  ELSE IF IsInf(b) THEN b
  ELSE Frac(a.n * b.d + b.n * a.d, a.d * b.d)

Sub(a, b) == Add(a, Neg(b))

Mul(a, b) ==
  IF IsNaN(a) \/ IsNaN(b) THEN NaN
  ELSE IF IsInf(a) \/ IsInf(b)
       THEN (IF a.n = 0 \/ b.n = 0 THEN NaN
             ELSE IF (a.n > 0) = (b.n > 0) THEN PosInf ELSE NegInf)
  ELSE Frac(a.n * b.n, a.d * b.d)

\* a / b for b # 0
Quot(a, b) ==
  IF IsNaN(a) \/ IsNaN(b) THEN NaN
  ELSE IF IsInf(a) /\ IsInf(b) THEN NaN
  ELSE IF IsInf(a) THEN (IF (a.n > 0) = (b.n > 0) THEN PosInf ELSE NegInf)
  ELSE IF IsInf(b) THEN Zero
  ELSE Frac(a.n * b.d, a.d * b.n)

\* a < b
Less(a, b) ==
  IF IsNaN(a) \/ IsNaN(b) THEN FALSE
  ELSE IF IsInf(a) /\ IsInf(b) THEN a.n < b.n
  ELSE a.n * b.d < b.n * a.d

\* a != 0
NonZero(a) == a.n # 0 \/ a.d = 0

RECURSIVE Pow(_, _)
Pow(b, e) == IF e = 0 THEN 1 ELSE b * Pow(b, e - 1)

-----------------------------------------------------------------------------
(* strtod of the C library, as far as sheets uses it: optional white       *)
(* space, an optional sign, then INF, INFINITY or NAN in any case, a       *)
(* hexadecimal number 0x.. or a decimal number, each with an optional      *)
(* fraction and exponent. The result holds the value and the end position; *)
(* the end position is the start position when nothing converts.           *)

RECURSIVE SkipSpace(_, _)
SkipSpace(s, p) == IF isspace(At(s, p)) THEN SkipSpace(s, p + 1) ELSE p

\* the value of c as a digit of the base, -1 when it is none
DigitVal(c, base) ==
  IF isdigit(c) THEN c - ch0
  ELSE IF base = 16 /\ toupper(c) >= chA /\ toupper(c) <= chA + 5 THEN toupper(c) - chA + 10
  ELSE -1

\* the run of digits at p, continuing the number acc: [num, cnt, p]
RECURSIVE Digits(_, _, _, _, _)
Digits(s, p, base, acc, cnt) ==
  IF DigitVal(At(s, p), base) >= 0
  THEN Digits(s, p + 1, base, acc * base + DigitVal(At(s, p), base), cnt + 1)
  ELSE [num |-> acc, cnt |-> cnt, p |-> p]

\* whether the characters at p are word, in any case
MatchWord(s, p, word) == \A i \in 1..Len(word) : toupper(At(s, p + i - 1)) = word[i]

\* a converted number: its value and the position after it
Converted(v, p) == [ok |-> TRUE, v |-> v, p |-> p]
NotConverted(p) == [ok |-> FALSE, v |-> Zero, p |-> p]

\* the mantissa m, ending at e0, scaled by the exponent that follows it, if one
\* does: the exponent character, an optional sign and the digits ep
WithExponent(s, m, e0, expch, expbase, ep) ==
  IF toupper(At(s, e0)) # expch \/ ep.cnt = 0 THEN Converted(m, e0)
  ELSE IF At(s, e0 + 1) = chMinus THEN Converted(Quot(m, Num(Pow(expbase, ep.num))), ep.p)
  ELSE Converted(Mul(m, Num(Pow(expbase, ep.num))), ep.p)

\* the digit runs ip before and fp after the '.', the latter continuing the
\* number of the former: the number they make, with its exponent
WithFraction(s, p, base, expch, expbase, ip, fp) ==
  IF ip.cnt + fp.cnt = 0 THEN NotConverted(p)
  ELSE WithExponent(s, Frac(fp.num, Pow(base, fp.cnt)), fp.p, expch, expbase,
                    Digits(s, IF At(s, fp.p + 1) \in {chPlus, chMinus} THEN fp.p + 2 ELSE fp.p + 1,
                           10, 0, 0))

\* the fraction digits after the integer digits ip
FractionDigits(s, base, ip) ==
  IF At(s, ip.p) = chDot THEN Digits(s, ip.p + 1, base, ip.num, 0)
  ELSE [num |-> ip.num, cnt |-> 0, p |-> ip.p]

AfterInteger(s, p, base, expch, expbase, ip) ==
  WithFraction(s, p, base, expch, expbase, ip, FractionDigits(s, base, ip))

\* digits, optional '.', digits, then an optional exponent: [ok, v, p]
Number(s, p, base, expch, expbase) ==
  AfterInteger(s, p, base, expch, expbase, Digits(s, p, base, 0, 0))

WordINFINITY == Str(<< "I", "N", "F", "I", "N", "I", "T", "Y" >>)
WordINF == Str(<< "I", "N", "F" >>)
WordNAN == Str(<< "N", "A", "N" >>)
chX == Code("X")
chP == Code("P")
chE == Code("E")

\* the number at r, after white space and sign
Unsigned(s, r) ==
  IF MatchWord(s, r, WordINFINITY) THEN Converted(PosInf, r + 8)
  ELSE IF MatchWord(s, r, WordINF) THEN Converted(PosInf, r + 3)
  ELSE IF MatchWord(s, r, WordNAN) THEN Converted(NaN, r + 3)
  ELSE IF At(s, r) = ch0 /\ toupper(At(s, r + 1)) = chX /\ DigitVal(At(s, r + 2), 16) >= 0
  THEN Number(s, r + 2, 16, chP, 2)
  ELSE IF At(s, r) = ch0 /\ toupper(At(s, r + 1)) = chX /\ At(s, r + 2) = chDot
          /\ DigitVal(At(s, r + 3), 16) >= 0
  THEN Number(s, r + 2, 16, chP, 2)
  ELSE Number(s, r, 10, chE, 10)

\* the result of strtod at p, given the number body found after the sign
Signed(p, neg, body) ==
  IF body.ok THEN [v |-> IF neg THEN Neg(body.v) ELSE body.v, p |-> body.p]
  ELSE [v |-> Zero, p |-> p]

AfterSpace(s, p, q) ==
  Signed(p, At(s, q) = chMinus,
         Unsigned(s, IF At(s, q) \in {chPlus, chMinus} THEN q + 1 ELSE q))

strtod(s, p) == AfterSpace(s, p, SkipSpace(s, p))

-----------------------------------------------------------------------------
(* The grid. cells is the flat array of sheets.c: the cell of row r and    *)
(* column c is cells[r * maxcols + c]. A cell holds its raw text, its      *)
(* computed value and whether the value is valid.                          *)

NCells == maxrows * maxcols
CELL(g, r, c) == g[r * maxcols + c]
BlankCell == [text |-> << >>, val |-> Zero, hasval |-> FALSE]

\* the run of uppercase letters at p read as a base-26 number: [n, p]
RECURSIVE ColRun(_, _, _)
ColRun(s, p, c) ==
  IF isupper(At(s, p)) THEN ColRun(s, p + 1, c * 26 + (At(s, p) - chA + 1))
  ELSE [n |-> c, p |-> p]

\* the run of digits at p read as a decimal number: [n, p]
RECURSIVE RowRun(_, _, _)
RowRun(s, p, r) ==
  IF isdigit(At(s, p)) THEN RowRun(s, p + 1, r * 10 + (At(s, p) - ch0))
  ELSE [n |-> r, p |-> p]

\* column name at p to index, -1 when there is none: [idx, p]
colname2idx(s, p) ==
  IF ~isupper(At(s, p)) THEN [idx |-> -1, p |-> p]
  ELSE LET a == ColRun(s, p, 0) IN [idx |-> a.n - 1, p |-> a.p]

\* row number at p to index, -1 when there is none: [idx, p]
rowstr2idx(s, p) ==
  IF ~isdigit(At(s, p)) THEN [idx |-> -1, p |-> p]
  ELSE LET a == RowRun(s, p, 0) IN [idx |-> a.n - 1, p |-> a.p]

NoAddr == [ok |-> FALSE, row |-> 0, col |-> 0]

\* the row part of a cell address, after the column c
addrrow(c, r) ==
  IF r.idx < 0 \/ r.idx >= maxrows THEN NoAddr
  ELSE [ok |-> TRUE, row |-> r.idx, col |-> c.idx]

\* the column part c of the cell address s
addrcol(s, c) ==
  IF c.idx < 0 \/ c.idx >= maxcols THEN NoAddr
  ELSE addrrow(c, rowstr2idx(s, c.p))

\* cell address like "A1" to row and column: [ok, row, col]
celladdr(s) == addrcol(s, colname2idx(s, 1))

\* the value and validity of the cell at the decoded address a
cellat(g, a) ==
  IF ~a.ok THEN [ok |-> FALSE, v |-> Zero]
  ELSE [ok |-> CELL(g, a.row, a.col).hasval, v |-> CELL(g, a.row, a.col).val]

\* the evaluator's callback: value of the cell at an address: [ok, v]
cellvalfn(g, addr) == cellat(g, celladdr(addr))

-----------------------------------------------------------------------------
(* eval.c: the recursive descent evaluator. pos is threaded through the    *)
(* parse functions: each takes the position it starts at and yields the    *)
(* value v, the position p it leaves pos at, and n, the number of loop     *)
(* iterations and nested calls ('(' and unary '-') made on the way.         *)

RECURSIVE skipws(_, _)
skipws(s, p) == IF At(s, p) = chSpace \/ At(s, p) = TAB THEN skipws(s, p + 1) ELSE p

NoRef(p) == [ok |-> FALSE, p |-> p, col |-> 0, row |-> 0]

\* the digits of a cell reference, after its letters c
refrow(s, p, c, r) ==
  IF ~isdigit(At(s, c.p)) THEN NoRef(p)
  ELSE [ok |-> TRUE, p |-> r.p, col |-> c.n - 1, row |-> r.n - 1]

refcol(s, p, c) == refrow(s, p, c, RowRun(s, c.p, 0))

\* cell reference at p: [ok, p, col, row]; p is left alone on failure
parse_cellref(s, p) ==
  IF ~isupper(At(s, p)) THEN NoRef(p) ELSE refcol(s, p, ColRun(s, p, 0))

\* the decimal digits of n, as "%d" prints it
RECURSIVE Decimal(_)
Decimal(n) ==
  IF n < 0 THEN << chMinus >> \o Decimal(-n)
  ELSE IF n < 10 THEN << ch0 + n >>
  ELSE Decimal(n \div 10) \o << ch0 + (n % 10) >>

\* snprintf(addr, 16, "%c%d", 'A' + col, row + 1): %c prints its argument
\* converted to unsigned char
FormatAddr(col, row) == Trunc(CStr(<< (chA + col) % 256 >> \o Decimal(row + 1)), 16)

\* the value the callback gave, 0 when it is not valid
validor0(r) == IF r.ok THEN r.v ELSE Zero

\* value of the cell (col, row) through the callback, 0 when it is not valid
getcellval(g, col, row) == validor0(cellvalfn(g, FormatAddr(col, row)))

FuncMIN == Str(<< "M", "I", "N" >>)
FuncMAX == Str(<< "M", "A", "X" >>)
FuncAVG == Str(<< "A", "V", "G" >>)
FuncSUM == Str(<< "S", "U", "M" >>)

\* the number of iterations of a loop from lo to hi
Span(lo, hi) == IF hi >= lo THEN hi - lo + 1 ELSE 0

\* one iteration of the inner loop of eval_range
RangeStep(result, v, ismin, ismax) ==
  IF ismin /\ Less(v, result) THEN v
  ELSE IF ismax /\ Less(result, v) THEN v
  ELSE IF ~ismin /\ ~ismax THEN Add(result, v)
  ELSE result

\* the two nested loops of eval_range from (r, c) on, with the result so far
RECURSIVE RangeLoop(_, _, _, _, _, _, _, _, _)
RangeLoop(g, r, c, c1, c2, r2, result, ismin, ismax) ==
  IF r > r2 THEN result
  ELSE IF c > c2 THEN RangeLoop(g, r + 1, c1, c1, c2, r2, result, ismin, ismax)
  ELSE RangeLoop(g, r, c + 1, c1, c2, r2,
                 RangeStep(result, getcellval(g, c, r), ismin, ismax), ismin, ismax)

\* the end of eval_range: AVG divides by the number of cells visited
RangeResult(func, total, count) ==
  IF func = FuncAVG /\ count > 0 THEN Quot(total, Num(count)) ELSE total

\* eval_range that gives 0 for a name that is none of SUM, AVG, MIN and MAX
eval_range_known(g, func, c1, r1, c2, r2) ==
  IF func \notin {FuncSUM, FuncAVG, FuncMIN, FuncMAX} THEN Zero
  ELSE RangeResult(func,
                   RangeLoop(g, r1, c1, c1, c2, r2,
                             IF func = FuncMAX THEN NegInf
                             ELSE IF func = FuncMIN THEN PosInf ELSE Zero,
                             func = FuncMIN, func = FuncMAX),
                   Span(r1, r2) * Span(c1, c2))

\* range function func over the columns c1..c2 of the rows r1..r2
eval_range(g, func, c1, r1, c2, r2) ==
  RangeResult(func,
              RangeLoop(g, r1, c1, c1, c2, r2,
                        IF func = FuncMAX THEN NegInf ELSE IF func = FuncMIN THEN PosInf ELSE Zero,
                        func = FuncMIN, func = FuncMAX),
              Span(r1, r2) * Span(c1, c2))

\* the length of the function name read at p: uppercase letters, at most 7
RECURSIVE FuncLen(_, _, _)
FuncLen(s, p, i) == IF isupper(At(s, p + i)) /\ i < 7 THEN FuncLen(s, p, i + 1) ELSE i

\* where a failed function call leaves pos: past a ')' met there
FuncFail(s, p) == IF At(s, p) = chRParen THEN p + 1 ELSE p

\* where a complete function call leaves pos: past the ')' when it is there
FuncClose(s, p) == IF At(s, p) = chRParen THEN p + 1 ELSE p

Called(v, p) == [matched |-> TRUE, v |-> v, p |-> p]

\* the function call after its ':' at p4, b the second cell reference
func_second(g, s, func, a, p4, b) ==
  IF ~b.ok THEN Called(Zero, FuncFail(s, p4))
  ELSE Called(eval_range(g, func, a.col, a.row, b.col, b.row), FuncClose(s, skipws(s, b.p)))

\* func_colon that does not insist on the ':' between the cell references
func_colon_optional(g, s, func, a, p3, p4) ==
  IF At(s, p3) # chColon THEN func_second(g, s, func, a, p3, parse_cellref(s, p3))
  ELSE func_second(g, s, func, a, p4, parse_cellref(s, p4))

\* the function call after its first cell reference a, p3 the position after it
func_colon(g, s, func, a, p3, p4) ==
  IF At(s, p3) # chColon THEN Called(Zero, FuncFail(s, p3))
  ELSE func_second(g, s, func, a, p4, parse_cellref(s, p4))

\* the function call after its '(' at p2, a the first cell reference
func_first(g, s, func, p2, a, p3) ==
  IF ~a.ok THEN Called(Zero, FuncFail(s, p2))
  ELSE func_colon(g, s, func, a, p3, skipws(s, p3 + 1))

func_args(g, s, func, p2, a) == func_first(g, s, func, p2, a, skipws(s, a.p))

\* the function call after its name, p1 the position after it
func_open(g, s, start, func, p1, p2) ==
  IF At(s, p1) # chLParen THEN [matched |-> FALSE, v |-> Zero, p |-> start]
  ELSE func_args(g, s, func, p2, parse_cellref(s, p2))

func_name(g, s, start, k, p1) ==
  func_open(g, s, start, SubSeq(s, start, start + k - 1), p1, skipws(s, p1 + 1))

func_named(g, s, start, k) == func_name(g, s, start, k, skipws(s, start + k))

\* the function call branch of parse_atom at start: [matched, v, p];
\* not matched (pos rewound to start) when no '(' follows the name
parse_func(g, s, start) == func_named(g, s, start, FuncLen(s, start, 0))

\* the unknown token branch without the test for the NUL
SkipUnknown_always(s, p) == p + 1

\* the unknown token branch of parse_atom: skip one character, not the NUL
SkipUnknown(s, p) == IF At(s, p) # NUL THEN p + 1 ELSE p

\* the division without the test of the divisor
Divide_unguarded(v, d) == Quot(v, d)

\* v / d, and 0 when d is 0
Divide(v, d) == IF NonZero(d) THEN Quot(v, d) ELSE Zero

Parsed(v, p, n) == [v |-> v, p |-> p, n |-> n]

\* the number and unknown token branches of parse_atom, num what strtod gave
atom_number(s, p, num) ==
  IF num.p # p THEN Parsed(num.v, num.p, 0) ELSE Parsed(Zero, SkipUnknown(s, p), 0)

\* the cell reference branch of parse_atom, ref what parse_cellref gave
atom_cellref(g, s, p, ref) ==
  IF ref.ok THEN Parsed(getcellval(g, ref.col, ref.row), ref.p, 0)
  ELSE atom_number(s, p, strtod(s, p))

\* the function call branch of parse_atom, f what it gave
atom_func(g, s, p, f) ==
  IF f.matched THEN Parsed(f.v, f.p, 0) ELSE atom_cellref(g, s, p, parse_cellref(s, p))

\* the end of a parenthesized expression e: past the ')' when it is there
atom_close(s, e, q) == Parsed(e.v, IF At(s, q) = chRParen THEN q + 1 ELSE q, e.n + 1)
atom_paren(s, e) == atom_close(s, e, skipws(s, e.p))

\* the steps of the loops of parse_term and parse_expr, and of parse_unary
mul_step(a, u) == Parsed(Mul(a.v, u.v), u.p, a.n + u.n + 1)
div_step(a, d) == Parsed(Divide(a.v, d.v), d.p, a.n + d.n + 1)
add_step(a, t) == Parsed(Add(a.v, t.v), t.p, a.n + t.n + 1)
sub_step(a, t) == Parsed(Sub(a.v, t.v), t.p, a.n + t.n + 1)
neg_step(u) == Parsed(Neg(u.v), u.p, u.n + 1)

RECURSIVE parse_expr(_, _, _)
RECURSIVE expr_loop(_, _, _, _)
RECURSIVE parse_term(_, _, _)
RECURSIVE term_loop(_, _, _, _)
RECURSIVE parse_unary(_, _, _)
RECURSIVE parse_atom(_, _, _)

\* the next iteration of a loop: skip white space after the operand a
term_next(g, s, a) == term_loop(g, s, a, skipws(s, a.p))
expr_next(g, s, a) == expr_loop(g, s, a, skipws(s, a.p))

atom_at(g, s, p) ==
  IF At(s, p) = chLParen THEN atom_paren(s, parse_expr(g, s, p + 1))
  ELSE IF isupper(At(s, p)) /\ isupper(At(s, p + 1)) /\ isupper(At(s, p + 2))
  THEN atom_func(g, s, p, parse_func(g, s, p))
  ELSE atom_cellref(g, s, p, parse_cellref(s, p))

parse_atom(g, s, p) == atom_at(g, s, skipws(s, p))

unary_at(g, s, p) ==
  IF At(s, p) = chMinus THEN neg_step(parse_unary(g, s, p + 1)) ELSE parse_atom(g, s, p)

parse_unary(g, s, p) == unary_at(g, s, skipws(s, p))

\* the loop of parse_term, a the term so far, p the position after white space
term_loop(g, s, a, p) ==
  IF At(s, p) = chStar THEN term_next(g, s, mul_step(a, parse_unary(g, s, p + 1)))
  ELSE IF At(s, p) = chSlash THEN term_next(g, s, div_step(a, parse_unary(g, s, p + 1)))
  ELSE Parsed(a.v, p, a.n)

parse_term(g, s, p) == term_next(g, s, parse_unary(g, s, p))

\* the loop of parse_expr, a the expression so far, p the position after white space
expr_loop(g, s, a, p) ==
  IF At(s, p) = chPlus THEN expr_next(g, s, add_step(a, parse_term(g, s, p + 1)))
  ELSE IF At(s, p) = chMinus THEN expr_next(g, s, sub_step(a, parse_term(g, s, p + 1)))
  ELSE Parsed(a.v, p, a.n)

parse_expr(g, s, p) == expr_next(g, s, parse_term(g, s, p))

\* the value of the expression s
eval_expr(g, s) == parse_expr(g, s, 1).v

-----------------------------------------------------------------------------
(* sheets.c: the session. The program state is the globals of sheets.c;   *)
(* disk is the grid text the persistence adapter last wrote (or loaded),   *)
(* file the lines of the file it wrote (or found), without their newline,  *)
(* wrote tells whether the last key handled wrote the file, died that      *)
(* die() ended the process. The handlers are operators from a state record *)
(* to a state record; one action handles one key.                          *)

VARIABLES cells, filename, dirty, crow, ccol, vrow, vcol, mode, editbuf, editlen,
          editpos, cmdbuf, cmdlen, yankbuf, statusmsg, running, disk, file, wrote,
          died, nkeys, typed, unsaved, asked, pressed, entered, expr, form, result

progvars == << cells, filename, dirty, crow, ccol, vrow, vcol, mode, editbuf, editlen,
               editpos, cmdbuf, cmdlen, yankbuf, statusmsg, running, disk, file, wrote,
               died >>
histvars == << nkeys, typed, unsaved, asked, pressed, entered >>
evalvars == << expr, form, result >>
vars == << progvars, histvars, evalvars >>

ModeNormal == "Normal"
ModeEdit == "Edit"
ModeCommand == "Command"

\* the layout constants of sheets.c and config.def.h
HEADERW == 4
colwidth == 10

\* key codes of curses
KEY_DOWN == 258
KEY_UP == 259
KEY_LEFT == 260
KEY_RIGHT == 261
KEY_HOME == 262
KEY_BACKSPACE == 263
KEY_DC == 330
KEY_NPAGE == 338
KEY_PPAGE == 339
KEY_ENTER == 343
KEY_BTAB == 353
KEY_END == 360
\* control characters
CtrlA == 1
CtrlE == 5
CtrlH == 8
NL == 10
CR == 13
CtrlS == 19
CtrlU == 21
ESC == 27
DEL == 127

\* a status message: its fixed text and its argument
Msg(m, arg) == [msg |-> m, arg |-> arg]
NoMsg == Msg("", << >>)
MsgUnsaved == Msg("unsaved changes (use :q! to force)", << >>)
MsgNoFilename == Msg("no filename", << >>)
MsgWrote(f) == Msg("wrote", f)
MsgUnknown(cmd) == Msg("unknown command", cmd)
MsgYanked == Msg("yanked", << >>)

\* the program state as a record
State ==
  [cells |-> cells, filename |-> filename, dirty |-> dirty, crow |-> crow, ccol |-> ccol,
   vrow |-> vrow, vcol |-> vcol, mode |-> mode, editbuf |-> editbuf, editlen |-> editlen,
   editpos |-> editpos, cmdbuf |-> cmdbuf, cmdlen |-> cmdlen, yankbuf |-> yankbuf,
   statusmsg |-> statusmsg, running |-> running, disk |-> disk, file |-> file,
   wrote |-> FALSE, died |-> died]

\* the program state after a handler
Becomes(t) ==
  /\ cells' = t.cells /\ filename' = t.filename /\ dirty' = t.dirty
  /\ crow' = t.crow /\ ccol' = t.ccol /\ vrow' = t.vrow /\ vcol' = t.vcol
  /\ mode' = t.mode /\ editbuf' = t.editbuf /\ editlen' = t.editlen
  /\ editpos' = t.editpos /\ cmdbuf' = t.cmdbuf /\ cmdlen' = t.cmdlen
  /\ yankbuf' = t.yankbuf /\ statusmsg' = t.statusmsg /\ running' = t.running
  /\ disk' = t.disk /\ file' = t.file /\ wrote' = t.wrote /\ died' = t.died

\* the text of every cell
Texts(g) == [i \in DOMAIN g |-> g[i].text]

\* set a cell's raw text. An edit buffer filled up to its last byte after a
\* stale byte was taken in has no NUL: snprintf then reads on past the array,
\* and whatever it finds there, the text it stores is the first CELLTEXT - 1
\* characters of the buffer
cellset(S, row, col, text) ==
  [S EXCEPT !.cells[row * maxcols + col] =
              [text |-> Trunc(CStr(text), CELLTEXT), val |-> Zero, hasval |-> FALSE],
            !.dirty = TRUE]

\* cellclear that forgets to set the dirty flag
cellclear_clean(S, row, col) == [S EXCEPT !.cells[row * maxcols + col] = BlankCell]

\* clear a cell
cellclear(S, row, col) ==
  [S EXCEPT !.cells[row * maxcols + col] = BlankCell, !.dirty = TRUE]

\* a literal cell: a number when strtod converts its whole text (num the result)
recalc_literal(g, i, text, num) ==
  IF At(text, num.p) = NUL /\ num.p # 1
  THEN [g EXCEPT ![i].val = num.v, ![i].hasval = TRUE]
  ELSE [g EXCEPT ![i].hasval = FALSE]

\* the body of the loop of recalc for the cell at index i
recalc_cell(g, i) ==
  IF At(g[i].text, 1) = chEquals
  THEN [g EXCEPT ![i].val = eval_expr(g, Tail(g[i].text)), ![i].hasval = TRUE]
  ELSE IF At(g[i].text, 1) # NUL THEN recalc_literal(g, i, g[i].text, strtod(g[i].text, 1))
  ELSE g

\* the loop of recalc from the cell at index i on, in row-major order
RECURSIVE recalc_from(_, _)
recalc_from(g, i) == IF i >= NCells THEN g ELSE recalc_from(recalc_cell(g, i), i + 1)

\* recalc that makes a second pass over the result of the first
recalc_twice(g) == recalc_from(recalc_from(g, 0), 0)

\* recalculate all cells
recalc_grid(g) == recalc_from(g, 0)

recalc(S) == [S EXCEPT !.cells = recalc_grid(S.cells)]

\* the last row, and the last column of row r, that hold text (0 when none)
LastUsedRow(g) ==
  LET used == {r \in 0..(maxrows - 1) : \E c \in 0..(maxcols - 1) : CELL(g, r, c).text # << >>}
  IN  IF used = {} THEN 0 ELSE CHOOSE r \in used : \A q \in used : q <= r

LastUsedCol(g, r) ==
  LET used == {c \in 0..(maxcols - 1) : CELL(g, r, c).text # << >>}
  IN  IF used = {} THEN 0 ELSE CHOOSE c \in used : \A q \in used : q <= c

\* the separator of config.def.h and the quote character of a CSV file
separator == Code(",")
chQuote == Code("\"")

\* the text with every quote character written twice
RECURSIVE Doubled(_)
Doubled(s) ==
  IF s = << >> THEN << >>
  ELSE (IF Head(s) = chQuote THEN << chQuote, chQuote >> ELSE << Head(s) >>) \o Doubled(Tail(s))

\* a cell text as writecsv writes it: in quotes when it holds a separator or
\* a quote character
csvfield(text) ==
  IF \E i \in 1..Len(text) : text[i] \in {separator, chQuote}
  THEN << chQuote >> \o Doubled(text) \o << chQuote >>
  ELSE text

\* the extent of the data: one more than the last row, and than the last
\* column of row r, that hold text
lastrow(g) ==
  IF \A i \in DOMAIN g : g[i].text = << >> THEN 0 ELSE LastUsedRow(g) + 1

lastcol(g, r) ==
  IF \A c \in 0..(maxcols - 1) : CELL(g, r, c).text = << >> THEN 0 ELSE LastUsedCol(g, r) + 1

\* the fields of row r from column c on, up to column n, with their separators
RECURSIVE csvline(_, _, _, _)
csvline(g, r, c, n) ==
  IF c >= n THEN << >>
  ELSE (IF c > 0 THEN << separator >> ELSE << >>)
         \o csvfield(CELL(g, r, c).text) \o csvline(g, r, c + 1, n)

\* the lines writecsv writes for the grid
csvrows(g) == [r \in 1..lastrow(g) |-> csvline(g, r - 1, 0, lastcol(g, r - 1))]

\* write cells to the file; die() when it cannot be opened
writecsv(S, opens) ==
  IF opens
  THEN [S EXCEPT !.disk = Texts(S.cells), !.file = csvrows(S.cells), !.wrote = TRUE,
                 !.dirty = FALSE]
  ELSE [S EXCEPT !.died = TRUE, !.running = FALSE]

\* where a quoted field that starts before p ends: at a quote character that
\* a separator or the end of the line follows, or at the end of the line
RECURSIVE QuotedEnd(_, _)
QuotedEnd(line, p) ==
  IF At(line, p) # NUL /\ ~(At(line, p) = chQuote /\ At(line, p + 1) \in {separator, NUL})
  THEN QuotedEnd(line, p + 1)
  ELSE p

\* where a field without quotes ends: at a separator or at the end of the line
RECURSIVE PlainEnd(_, _)
PlainEnd(line, p) ==
  IF At(line, p) # NUL /\ At(line, p) # separator THEN PlainEnd(line, p + 1) ELSE p

\* the position after a field that ended at p: past the separator there
AfterField(line, p) == IF At(line, p) = separator THEN p + 1 ELSE p

\* the field from start to e: its text and the position after it
FieldRead(line, start, e, quoted) ==
  [text |-> SubSeq(line, start, e - 1),
   next |-> AfterField(line, IF quoted /\ At(line, e) = chQuote THEN e + 1 ELSE e)]

\* the field of the line at p
readfield(line, p) ==
  IF At(line, p) = chQuote THEN FieldRead(line, p + 1, QuotedEnd(line, p + 1), TRUE)
  ELSE FieldRead(line, p, PlainEnd(line, p), FALSE)

\* the fields of one line of the file from p on, set into the cells of the
\* row from column col on; an empty field sets no cell
RECURSIVE readline(_, _, _, _, _)
readline(S, row, line, p, col) ==
  IF At(line, p) = NUL \/ col >= maxcols THEN S
  ELSE readline(IF readfield(line, p).text # << >>
                THEN cellset(S, row, col, readfield(line, p).text)
                ELSE S,
                row, line, readfield(line, p).next, col + 1)

\* the lines of the file from the one of the row on
RECURSIVE readlines(_, _, _)
readlines(S, lines, row) ==
  IF row >= Len(lines) \/ row >= maxrows THEN S
  ELSE readlines(readline(S, row, lines[row + 1], 1, 0), lines, row + 1)

\* read the file into cells
readcsv(S, lines) == [readlines(S, lines, 0) EXCEPT !.dirty = FALSE]

\* the statements after a call of writecsv: they set the fields of upd, and are
\* not reached when die() ended the process
Survives(W, upd) ==
  IF W.died THEN W
  ELSE [f \in DOMAIN W |-> IF f \in DOMAIN upd THEN upd[f] ELSE W[f]]

\* scrollview that recalculates the grid as well
scrollview_recalc(S) ==
  LET visrows == LINES - 2
      viscols == (COLS - HEADERW) \div colwidth
      v1 == IF S.crow < S.vrow THEN S.crow ELSE S.vrow
      v2 == IF S.crow >= v1 + visrows THEN S.crow - visrows + 1 ELSE v1
      h1 == IF S.ccol < S.vcol THEN S.ccol ELSE S.vcol
      h2 == IF S.ccol >= h1 + viscols THEN S.ccol - viscols + 1 ELSE h1
  IN  [S EXCEPT !.vrow = v2, !.vcol = h2, !.cells = recalc_grid(S.cells)]

\* scrollview that scrolls down one row too late
scrollview_late(S) ==
  LET visrows == LINES - 2
      viscols == (COLS - HEADERW) \div colwidth
      v1 == IF S.crow < S.vrow THEN S.crow ELSE S.vrow
      v2 == IF S.crow > v1 + visrows THEN S.crow - visrows + 1 ELSE v1
      h1 == IF S.ccol < S.vcol THEN S.ccol ELSE S.vcol
      h2 == IF S.ccol >= h1 + viscols THEN S.ccol - viscols + 1 ELSE h1
  IN  [S EXCEPT !.vrow = v2, !.vcol = h2]

\* ensure cursor is visible in viewport
scrollview(S) ==
  LET visrows == LINES - 2
      viscols == (COLS - HEADERW) \div colwidth
      v1 == IF S.crow < S.vrow THEN S.crow ELSE S.vrow
      v2 == IF S.crow >= v1 + visrows THEN S.crow - visrows + 1 ELSE v1
      h1 == IF S.ccol < S.vcol THEN S.ccol ELSE S.vcol
      h2 == IF S.ccol >= h1 + viscols THEN S.ccol - viscols + 1 ELSE h1
  IN  [S EXCEPT !.vrow = v2, !.vcol = h2]

\* snprintf(buf, CELLTEXT, "%s", text) into the array buf: the text and its
\* NUL, the bytes after them left as they were
StrInto(buf, text) ==
  LET s == Trunc(CStr(text), CELLTEXT)
  IN  [i \in 1..CELLTEXT |-> IF i <= Len(s) THEN s[i] ELSE IF i = Len(s) + 1 THEN NUL ELSE buf[i]]

\* enter edit mode
editenter(S, clear) ==
  LET text == CELL(S.cells, S.crow, S.ccol).text
      buf == IF clear THEN [S.editbuf EXCEPT ![1] = NUL] ELSE StrInto(S.editbuf, text)
      len == IF clear THEN 0 ELSE Len(CStr(buf))
  IN  [S EXCEPT !.mode = ModeEdit, !.editbuf = buf, !.editlen = len, !.editpos = len,
                !.statusmsg = NoMsg]

\* start an edit with the one character ch in the buffer ('=' or a digit)
editstart(S, ch) ==
  LET T == editenter(S, TRUE)
  IN  [T EXCEPT !.editbuf[1] = ch, !.editlen = 1, !.editpos = 1]

\* confirm edit
editconfirm(S) == [recalc(cellset(S, S.crow, S.ccol, S.editbuf)) EXCEPT !.mode = ModeNormal]

\* editcancel that commits the buffer as editconfirm does
editcancel_commits(S) ==
  [recalc(cellset(S, S.crow, S.ccol, S.editbuf)) EXCEPT !.mode = ModeNormal, !.statusmsg = NoMsg]

\* cancel edit
editcancel(S) == [S EXCEPT !.mode = ModeNormal, !.statusmsg = NoMsg]

\* memmove(buf + dst, buf + src, n) on the array buf, C indices
memmove(buf, dst, src, n) ==
  [i \in 1..Len(buf) |-> IF i - 1 >= dst /\ i - 1 < dst + n THEN buf[i - dst + src] ELSE buf[i]]

\* movedown without the test for the last row
movedown_unbounded(S) == scrollview([S EXCEPT !.crow = S.crow + 1])

\* move down after enter
movedown(S) ==
  scrollview([S EXCEPT !.crow = IF S.crow < maxrows - 1 THEN S.crow + 1 ELSE S.crow])

\* handle key in edit mode
editkey(S, ch) ==
  IF ch \in {NL, CR, KEY_ENTER}
  THEN movedown(editconfirm(S))
  ELSE IF ch = ESC THEN editcancel(S)
  ELSE IF ch \in {KEY_BACKSPACE, DEL, CtrlH}
  THEN (IF S.editpos > 0
        THEN [S EXCEPT !.editbuf = memmove(S.editbuf, S.editpos - 1, S.editpos,
                                           S.editlen - S.editpos + 1),
                       !.editpos = S.editpos - 1, !.editlen = S.editlen - 1]
        ELSE S)
  ELSE IF ch = KEY_DC
  THEN (IF S.editpos < S.editlen
        THEN [S EXCEPT !.editbuf = memmove(S.editbuf, S.editpos, S.editpos + 1,
                                           S.editlen - S.editpos),
                       !.editlen = S.editlen - 1]
        ELSE S)
  ELSE IF ch = KEY_LEFT THEN [S EXCEPT !.editpos = IF S.editpos > 0 THEN S.editpos - 1 ELSE S.editpos]
  ELSE IF ch = KEY_RIGHT
  THEN [S EXCEPT !.editpos = IF S.editpos < S.editlen THEN S.editpos + 1 ELSE S.editpos]
  ELSE IF ch \in {KEY_HOME, CtrlA} THEN [S EXCEPT !.editpos = 0]
  ELSE IF ch \in {KEY_END, CtrlE} THEN [S EXCEPT !.editpos = S.editlen]
  ELSE IF ch = CtrlU THEN [S EXCEPT !.editbuf[1] = NUL, !.editlen = 0, !.editpos = 0]
  ELSE IF ch >= 32 /\ ch < 127 /\ S.editlen < CELLTEXT - 1
  THEN [S EXCEPT !.editbuf = [memmove(S.editbuf, S.editpos + 1, S.editpos,
                                      S.editlen - S.editpos + 1)
                                EXCEPT ![S.editpos + 1] = ch],
                 !.editpos = S.editpos + 1, !.editlen = S.editlen + 1]
  ELSE S

\* the write command, S the state after a file name given with it was taken
cmdwrite(S, opens) ==
  IF S.filename = << >> THEN [S EXCEPT !.statusmsg = MsgNoFilename]
  ELSE Survives(writecsv(S, opens), [statusmsg |-> MsgWrote(S.filename)])

\* the last branches of runcmd: go to the cell address a, or unknown command
cmdgoto(S, cmd, a) ==
  IF a.ok THEN scrollview([S EXCEPT !.crow = a.row, !.ccol = a.col])
  ELSE [S EXCEPT !.statusmsg = MsgUnknown(cmd)]

CmdWQ == Str(<< "w", "q" >>)
chLowQ == Code("q")
chLowW == Code("w")

\* execute command
runcmd(S, cmd, opens) ==
  IF At(cmd, 1) = chLowQ
  THEN (IF S.dirty /\ At(cmd, 2) # chBang THEN [S EXCEPT !.statusmsg = MsgUnsaved]
        ELSE [S EXCEPT !.running = FALSE])
  ELSE IF At(cmd, 1) = chLowW
  THEN cmdwrite(IF At(cmd, 2) = chSpace /\ At(cmd, 3) # NUL
                THEN [S EXCEPT !.filename = Trunc(SubSeq(cmd, 3, Len(cmd)), 512)]
                ELSE S,
                opens)
  ELSE IF cmd = CmdWQ
  THEN (IF S.filename = << >> THEN [S EXCEPT !.statusmsg = MsgNoFilename]
        ELSE Survives(writecsv(S, opens), [running |-> FALSE]))
  ELSE cmdgoto(S, cmd, celladdr(cmd))

\* handle key in command mode
cmdkey(S, ch, opens) ==
  IF ch \in {NL, CR, KEY_ENTER}
  THEN Survives(runcmd(S, S.cmdbuf, opens), [mode |-> ModeNormal])
  ELSE IF ch = ESC THEN [S EXCEPT !.mode = ModeNormal, !.statusmsg = NoMsg]
  ELSE IF ch \in {KEY_BACKSPACE, DEL, CtrlH}
  THEN (IF S.cmdlen > 0
        THEN [S EXCEPT !.cmdbuf = SubSeq(S.cmdbuf, 1, S.cmdlen - 1), !.cmdlen = S.cmdlen - 1]
        ELSE [S EXCEPT !.mode = ModeNormal])
  ELSE IF ch >= 32 /\ ch < 127 /\ S.cmdlen < CELLTEXT - 1
  THEN [S EXCEPT !.cmdbuf = Append(S.cmdbuf, ch), !.cmdlen = S.cmdlen + 1]
  ELSE S

\* the clear key that yanks nothing
clearkey_unyanked(S, text) == recalc(cellclear(S, S.crow, S.ccol))

\* the keys x and Delete: yank the text of the cell under the cursor, clear
\* the cell and recalculate
clearkey(S, text) ==
  recalc(cellclear([S EXCEPT !.yankbuf = Trunc(text, CELLTEXT)], S.crow, S.ccol))

\* the quit key without the test of the dirty flag
quitkey_unasked(S) == [S EXCEPT !.running = FALSE]

\* the quit key of normal mode
quitkey(S) == IF S.dirty THEN [S EXCEPT !.statusmsg = MsgUnsaved] ELSE [S EXCEPT !.running = FALSE]

\* handle key in normal mode
normalkey(S0, ch, opens) ==
  LET S == [S0 EXCEPT !.statusmsg = NoMsg]
      text == CELL(S0.cells, S0.crow, S0.ccol).text
  IN  IF ch = chLowQ THEN quitkey(S)
      ELSE IF ch \in {Code("h"), KEY_LEFT, KEY_BTAB}
      THEN scrollview([S EXCEPT !.ccol = IF S.ccol > 0 THEN S.ccol - 1 ELSE S.ccol])
      ELSE IF ch \in {Code("j"), KEY_DOWN}
      THEN scrollview([S EXCEPT !.crow = IF S.crow < maxrows - 1 THEN S.crow + 1 ELSE S.crow])
      ELSE IF ch \in {Code("k"), KEY_UP}
      THEN scrollview([S EXCEPT !.crow = IF S.crow > 0 THEN S.crow - 1 ELSE S.crow])
      ELSE IF ch \in {Code("l"), KEY_RIGHT, TAB}
      THEN scrollview([S EXCEPT !.ccol = IF S.ccol < maxcols - 1 THEN S.ccol + 1 ELSE S.ccol])
      ELSE IF ch = Code("g") THEN scrollview([S EXCEPT !.crow = 0, !.ccol = 0])
      ELSE IF ch = Code("G") THEN scrollview([S EXCEPT !.crow = LastUsedRow(S.cells)])
      ELSE IF ch \in {ch0, KEY_HOME} THEN scrollview([S EXCEPT !.ccol = 0])
      ELSE IF ch \in {Code("$"), KEY_END}
      THEN scrollview([S EXCEPT !.ccol = LastUsedCol(S.cells, S.crow)])
      ELSE IF ch = KEY_PPAGE
      THEN scrollview([S EXCEPT !.crow = IF S.crow - (LINES - 3) < 0 THEN 0
                                          ELSE S.crow - (LINES - 3)])
      ELSE IF ch = KEY_NPAGE
      THEN scrollview([S EXCEPT !.crow = IF S.crow + (LINES - 3) >= maxrows THEN maxrows - 1
                                          ELSE S.crow + (LINES - 3)])
      ELSE IF ch \in {NL, CR, KEY_ENTER, Code("e")} THEN editenter(S, FALSE)
      ELSE IF ch = Code("i") THEN editenter(S, TRUE)
      ELSE IF ch = chEquals THEN editstart(S, chEquals)
      ELSE IF ch \in {Code("x"), KEY_DC}
      THEN clearkey(S, text)
      ELSE IF ch = Code("y") THEN [S EXCEPT !.yankbuf = Trunc(text, CELLTEXT), !.statusmsg = MsgYanked]
      ELSE IF ch = Code("p")
      THEN (IF S.yankbuf # << >> THEN recalc(cellset(S, S.crow, S.ccol, S.yankbuf)) ELSE S)
      ELSE IF ch = chColon THEN [S EXCEPT !.mode = ModeCommand, !.cmdbuf = << >>, !.cmdlen = 0]
      ELSE IF ch = CtrlS
      THEN (IF S.filename = << >> THEN [S EXCEPT !.statusmsg = MsgNoFilename]
            ELSE Survives(writecsv(S, opens), [statusmsg |-> MsgWrote(S.filename)]))
      ELSE IF ch >= ch0 /\ ch <= ch9 THEN editstart(S, ch)
      ELSE S

-----------------------------------------------------------------------------
(* The session as a state machine: run() reads one key and dispatches on   *)
(* the mode. nkeys counts the keys handled; typed follows a formula typed  *)
(* after '=' (none / typing / confirmed, its text and cell); unsaved tells *)
(* whether the grid was mutated since the last successful write or load;   *)
(* asked tells whether the key just handled asked to quit (the key q, or   *)
(* one of the commands q, q! and wq confirmed), and whether the grid was   *)
(* dirty and a file name known when it did; pressed is the key just        *)
(* handled and the mode it was handled in; entered holds the grid, dirty   *)
(* flag, cursor and yank buffer as they were when edit mode was entered,   *)
(* from then until the key after the one that leaves edit mode.            *)

EditChars == {Code("A"), Code("1"), Code("2")}
CmdChars == {Code("q"), Code("w"), chBang, chSpace, Code("A"), Code("2")}
EnterKeys == {NL, CR, KEY_ENTER}
BackKeys == {KEY_BACKSPACE, DEL, CtrlH}

NormalKeys ==
  {Code("q"), Code("h"), KEY_LEFT, Code("j"), KEY_DOWN, Code("k"), KEY_UP, Code("l"),
   KEY_RIGHT, TAB, KEY_BTAB, Code("g"), Code("G"), ch0, KEY_HOME, Code("$"), KEY_END,
   KEY_PPAGE, KEY_NPAGE, Code("i"), chEquals, Code("e"), Code("x"), KEY_DC, Code("y"),
   Code("p"), chColon, CtrlS, Code("1"), Code("z")} \cup EnterKeys

EditKeys ==
  {ESC, KEY_DC, KEY_LEFT, KEY_RIGHT, KEY_HOME, CtrlA, KEY_END, CtrlE, CtrlU, KEY_UP}
    \cup EnterKeys \cup BackKeys \cup EditChars

CmdKeys == {ESC, KEY_UP} \cup EnterKeys \cup BackKeys \cup CmdChars

\* the file names given on the command line: none, or "f"
InitFilenames == {<< >>, Str(<< "f" >>)}

\* the cell texts a file read at startup can hold: none (no file, or an empty
\* one), or 1 in A1, =A1 in B1, =B2 in A2 and 0X1 in B2
LoadedTexts ==
  {[i \in 0..(NCells - 1) |-> << >>],
   [i \in 0..(NCells - 1) |->
      IF i = 0 THEN Str(<< "1" >>)
      ELSE IF i = 1 THEN Str(<< "=", "A", "1" >>)
      ELSE IF i = maxcols THEN Str(<< "=", "B", "2" >>)
      ELSE IF i = maxcols + 1 THEN Str(<< "0", "X", "1" >>)
      ELSE << >>]}

\* the grid after readcsv and the first recalc of main
LoadedGrid(texts) ==
  recalc_grid([i \in 0..(NCells - 1) |-> [text |-> texts[i], val |-> Zero, hasval |-> FALSE]])

NoTyped == [phase |-> "none", text |-> << >>, row |-> 0, col |-> 0]
NoAsk == [by |-> "none", cmd |-> << >>, dirty |-> FALSE, named |-> FALSE]
CmdQ == Str(<< "q" >>)
CmdQForce == Str(<< "q", "!" >>)
QuitCmds == {CmdQ, CmdQForce, CmdWQ}
NoResult == [done |-> FALSE, v |-> Zero, p |-> 0, n |-> 0]
NoForm == [kind |-> "none"]
NoKey == [mode |-> "none", ch |-> NUL]
NoEntry == [at |-> FALSE]

\* what edit mode was entered with, in the state T
Entry(T) ==
  [at |-> TRUE, cells |-> T.cells, dirty |-> T.dirty, crow |-> T.crow, ccol |-> T.ccol,
   yankbuf |-> T.yankbuf]

InitSession(f, texts) ==
  /\ cells = LoadedGrid(texts) /\ filename = f /\ dirty = FALSE
  /\ crow = 0 /\ ccol = 0 /\ vrow = 0 /\ vcol = 0 /\ mode = ModeNormal
  /\ editbuf = [i \in 1..CELLTEXT |-> NUL] /\ editlen = 0 /\ editpos = 0
  /\ cmdbuf = << >> /\ cmdlen = 0 /\ yankbuf = << >> /\ statusmsg = NoMsg
  /\ running = TRUE /\ disk = texts /\ file = csvrows(LoadedGrid(texts))
  /\ wrote = FALSE /\ died = FALSE
  /\ nkeys = 0 /\ typed = NoTyped /\ unsaved = FALSE /\ asked = NoAsk
  /\ pressed = NoKey /\ entered = NoEntry

Init ==
  /\ \E f \in InitFilenames, texts \in LoadedTexts :
       /\ (f = << >> => \A i \in DOMAIN texts : texts[i] = << >>)
       /\ InitSession(f, texts)
  /\ expr = << >> /\ form = NoForm /\ result = NoResult

\* whether the file opens for writing, for a key that may write it
Opens(writes) == IF writes THEN BOOLEAN ELSE {TRUE}

\* the state T the handler of the key ch left, and whether the key mutated
\* the grid
Handled(T, ch, mutates) ==
  /\ Becomes(T)
  /\ pressed' = [mode |-> mode, ch |-> ch]
  /\ entered' = IF mode = ModeEdit THEN entered
                ELSE IF T.mode = ModeEdit THEN Entry(T) ELSE NoEntry
  /\ unsaved' = IF T.wrote THEN FALSE ELSE IF mutates THEN TRUE ELSE unsaved

Handling == running /\ nkeys < MaxKeys /\ nkeys' = nkeys + 1 /\ UNCHANGED evalvars

NormalKey ==
  /\ Handling /\ mode = ModeNormal
  /\ \E ch \in NormalKeys : \E opens \in Opens(ch = CtrlS) :
       /\ Handled(normalkey(State, ch, opens), ch,
                  ch \in {Code("x"), KEY_DC} \/ (ch = Code("p") /\ yankbuf # << >>))
       /\ typed' = IF ch = chEquals
                   THEN [phase |-> "typing", text |-> << chEquals >>, row |-> crow, col |-> ccol]
                   ELSE NoTyped
       /\ asked' = IF ch = chLowQ
                   THEN [by |-> "key", cmd |-> CmdQ, dirty |-> dirty, named |-> filename # << >>]
                   ELSE NoAsk

EditKey ==
  /\ Handling /\ mode = ModeEdit
  /\ \E ch \in EditKeys :
       /\ Handled(editkey(State, ch), ch, ch \in EnterKeys)
       /\ typed' = IF typed.phase # "typing" THEN NoTyped
                   ELSE IF ch \in EnterKeys THEN [typed EXCEPT !.phase = "confirmed"]
                   ELSE IF ch >= 32 /\ ch < 127 /\ editlen < CELLTEXT - 1
                   THEN [typed EXCEPT !.text = Append(@, ch)]
                   ELSE NoTyped
       /\ asked' = NoAsk

CmdKey ==
  /\ Handling /\ mode = ModeCommand
  /\ \E ch \in CmdKeys : \E opens \in Opens(ch \in EnterKeys) :
       /\ Handled(cmdkey(State, ch, opens), ch, FALSE)
       /\ typed' = NoTyped
       /\ asked' = IF ch \in EnterKeys /\ cmdbuf \in QuitCmds
                   THEN [by |-> "command", cmd |-> cmdbuf, dirty |-> dirty,
                         named |-> filename # << >>]
                   ELSE NoAsk

Next == NormalKey \/ EditKey \/ CmdKey

Spec == Init /\ [][Next]_vars

-----------------------------------------------------------------------------
(* The evaluator as a state machine: eval_expr applied once to a formula   *)
(* over the grid of a loaded session. form tells how the formula expr was  *)
(* made; result holds what parse_expr gave: the value v, the position p    *)
(* pos was left at and the count n of iterations and nested calls.         *)

\* the operands of the formulas with a parenthesis or an unknown character,
\* and those of the longer formulas without
Operands == {0, 2, 3, 4}
ArithOperands == {0, 1, 2}
OpChars == {chPlus, chMinus, chStar, chSlash}
chDollar == Code("$")
chSemi == Code(";")

\* the characters of the operators ops and the operands after them, from i on
RECURSIVE ShowOps(_, _, _)
ShowOps(vals, ops, i) ==
  IF i > Len(ops) THEN << >>
  ELSE << ops[i], ch0 + vals[i + 1] >> \o ShowOps(vals, ops, i + 1)

ShowSign(neg) == IF neg THEN << chMinus >> ELSE << >>

\* operand (operator operand)*, with an optional leading minus: -1+2*3
ArithForms ==
  UNION {{[kind |-> "arith", neg |-> s, vals |-> v, ops |-> o] :
            s \in BOOLEAN, v \in [1..(k + 1) -> ArithOperands], o \in [1..k -> OpChars]} :
         k \in 1..MaxOps}
ShowArith(f) == ShowSign(f.neg) \o << ch0 + f.vals[1] >> \o ShowOps(f.vals, f.ops, 1)

\* a parenthesized operation, optionally negated, as the left or the right
\* operand of an operation: -(2+3)*4, 4/(2-2)
GroupForms ==
  {[kind |-> "group", left |-> l, neg |-> s, vals |-> v, ops |-> o] :
     l \in BOOLEAN, s \in BOOLEAN, v \in [1..3 -> Operands], o \in [1..2 -> OpChars]}
ShowInner(f) ==
  ShowSign(f.neg) \o << chLParen, ch0 + f.vals[1], f.ops[1], ch0 + f.vals[2], chRParen >>
ShowGroup(f) ==
  IF f.left THEN ShowInner(f) \o << f.ops[2], ch0 + f.vals[3] >>
  ELSE << ch0 + f.vals[3], f.ops[2] >> \o ShowInner(f)

\* the name of the cell of column c < 26 and row r < 9
CellName(c, r) == << chA + c, ch0 + r + 1 >>

\* a range function over two cells of the grid: SUM(B2:A1)
RangeFuncs == {FuncSUM, FuncAVG, FuncMIN, FuncMAX}
RangeForms ==
  {[kind |-> "range", func |-> f, c1 |-> c1, r1 |-> r1, c2 |-> c2, r2 |-> r2] :
     f \in RangeFuncs, c1 \in 0..(maxcols - 1), r1 \in 0..(maxrows - 1),
     c2 \in 0..(maxcols - 1), r2 \in 0..(maxrows - 1)}
ShowRange(f) ==
  f.func \o << chLParen >> \o CellName(f.c1, f.r1) \o << chColon >> \o CellName(f.c2, f.r2)
    \o << chRParen >>

\* a call of a name of 3 to 7 uppercase letters that is none of SUM, AVG, MIN
\* and MAX over two cells of the grid: FOO(A1:B2)
OtherNames ==
  {Str(<< "F", "O", "O" >>), Str(<< "S", "U", "M", "S" >>), Str(<< "A", "V", "G", "S" >>),
   Str(<< "M", "I", "N", "U", "S" >>), Str(<< "M", "A", "X", "I", "M", "U", "M" >>),
   Str(<< "A", "B", "C", "D", "E", "F", "G" >>)}
NamedForms ==
  {[kind |-> "named", func |-> f, c1 |-> c1, r1 |-> r1, c2 |-> c2, r2 |-> r2] :
     f \in OtherNames, c1 \in 0..(maxcols - 1), r1 \in 0..(maxrows - 1),
     c2 \in 0..(maxcols - 1), r2 \in 0..(maxrows - 1)}

\* a cell reference alone: column names with their index, and a row
RefColumns ==
  {[name |-> Str(<< "A" >>), idx |-> 0], [name |-> Str(<< "B" >>), idx |-> 1],
   [name |-> Str(<< "C" >>), idx |-> 2], [name |-> Str(<< "D" >>), idx |-> 3],
   [name |-> Str(<< "Z" >>), idx |-> 25], [name |-> Str(<< "A", "A" >>), idx |-> 26],
   [name |-> Str(<< "G", "J" >>), idx |-> 191], [name |-> Str(<< "I", "V" >>), idx |-> 255],
   [name |-> Str(<< "I", "W" >>), idx |-> 256], [name |-> Str(<< "I", "X" >>), idx |-> 257],
   [name |-> Str(<< "I", "Y" >>), idx |-> 258]}
RefForms == {[kind |-> "ref", col |-> c, row |-> r] : c \in RefColumns, r \in 0..(maxrows + 1)}
ShowRef(f) == f.col.name \o << ch0 + f.row + 1 >>

\* a range function call, well-formed or not; fails names the first thing
\* that is wrong with it
CallFirsts == {Str(<< "A", "1" >>), << >>, Str(<< "1" >>), Str(<< "A" >>)}
CallSeps == {<< chColon >>, << chSemi >>, << chSpace >>}
CallSeconds == {Str(<< "B", "2" >>), << >>, Str(<< "B" >>)}
CallCloses == {<< chRParen >>, << >>}
CallFails(first, sep, second, close) ==
  IF first # Str(<< "A", "1" >>) THEN "first"
  ELSE IF sep # << chColon >> THEN "colon"
  ELSE IF second # Str(<< "B", "2" >>) THEN "second"
  ELSE IF close # << chRParen >> THEN "close"
  ELSE "none"
CallForms ==
  {[kind |-> "call", func |-> f, first |-> a, sep |-> s, second |-> b, close |-> c,
    fails |-> CallFails(a, s, b, c)] :
     f \in {FuncSUM, FuncMIN}, a \in CallFirsts, s \in CallSeps, b \in CallSeconds,
     c \in CallCloses}
ShowCall(f) == f.func \o << chLParen >> \o f.first \o f.sep \o f.second \o f.close

\* an operation with the unknown character '$' before, after or in place of
\* its first operand: $1+2, 1$+2, $+2
UnknownPlaces == {"before", "after", "alone"}
UnknownForms ==
  {[kind |-> "unknown", place |-> w, a |-> a, op |-> o, b |-> b] :
     w \in UnknownPlaces, a \in Operands, o \in OpChars, b \in Operands}
ShowUnknown(f) ==
  (IF f.place = "before" THEN << chDollar, ch0 + f.a >>
   ELSE IF f.place = "after" THEN << ch0 + f.a, chDollar >>
   ELSE << chDollar >>) \o << f.op, ch0 + f.b >>

\* any string of at most MaxLen of these characters
AnyChars == {Code("1"), chA, chPlus, chMinus, chStar, chLParen, chRParen, chDollar}
AnyExprs == UNION {[1..k -> AnyChars] : k \in 0..MaxLen}
AnyForm == [kind |-> "any"]

\* the cell texts of the grids the formulas are evaluated over: the numbers
\* 1, 2, 3.. in the cells in row-major order, or 5 in A1, a blank cell, a cell
\* of text and =A1 in the other cells
NumberedTexts == [i \in 0..(NCells - 1) |-> Decimal(i + 1)]
MixedTexts ==
  [i \in 0..(NCells - 1) |->
     IF i = 0 THEN Str(<< "5" >>) ELSE IF i = 1 THEN << >>
     ELSE IF i = 2 THEN Str(<< "x" >>) ELSE Str(<< "=", "A", "1" >>)]
EvalTexts == {NumberedTexts, MixedTexts}

\* a formula of one of the forms that do not read the grid
ComputedFormula ==
  \/ \E f \in ArithForms : form = f /\ expr = ShowArith(f)
  \/ \E f \in GroupForms : form = f /\ expr = ShowGroup(f)
  \/ \E f \in UnknownForms : form = f /\ expr = ShowUnknown(f)
  \/ \E e \in AnyExprs : form = AnyForm /\ expr = e

\* a formula of one of the forms that read the grid
ReadingFormula ==
  \/ \E f \in RangeForms : form = f /\ expr = ShowRange(f)
  \/ \E f \in RefForms : form = f /\ expr = ShowRef(f)
  \/ \E f \in CallForms : form = f /\ expr = ShowCall(f)
  \/ \E f \in NamedForms : form = f /\ expr = ShowRange(f)

\* a session loaded from the file "f", and a formula to evaluate
InitEval ==
  /\ result = NoResult
  /\ \/ InitSession(Str(<< "f" >>), NumberedTexts) /\ ComputedFormula
     \/ \E texts \in EvalTexts : InitSession(Str(<< "f" >>), texts) /\ ReadingFormula

Evaluated(r) == [done |-> TRUE, v |-> r.v, p |-> r.p, n |-> r.n]

\* eval_expr: pos is set to the formula and parse_expr parses it
Evaluate ==
  /\ ~result.done
  /\ result' = Evaluated(parse_expr(cells, expr, 1))
  /\ UNCHANGED << progvars, histvars, expr, form >>

NextEval == Evaluate

SpecEval == InitEval /\ [][NextEval]_vars

-----------------------------------------------------------------------------
(* Persistence as a state machine: a grid of typed texts is written with   *)
(* Ctrl-S and sheets is started again on the file written. The texts are   *)
(* drawn over a letter, the separator and the quote character and typed    *)
(* into two cells of the grid.                                             *)

CsvChars == {Code("a"), separator, chQuote}
CsvTexts == UNION {[1..n -> CsvChars] : n \in 0..MaxText}

\* the indices of the two cells typed into: A1 and B1, B1 and the first cell
\* of the second row, or A1 and the last cell of the grid
CsvPlaces == {<< 0, 1 >>, << 1, maxcols >>, << 0, NCells - 1 >>}

\* the state of a new process named f, before it reads the file of those lines
Fresh(f, lines) ==
  [cells |-> [i \in 0..(NCells - 1) |-> BlankCell], filename |-> f, dirty |-> FALSE,
   crow |-> 0, ccol |-> 0, vrow |-> 0, vcol |-> 0, mode |-> ModeNormal,
   editbuf |-> [i \in 1..CELLTEXT |-> NUL], editlen |-> 0, editpos |-> 0,
   cmdbuf |-> << >>, cmdlen |-> 0, yankbuf |-> << >>, statusmsg |-> NoMsg,
   running |-> TRUE, disk |-> [i \in 0..(NCells - 1) |-> << >>], file |-> lines,
   wrote |-> FALSE, died |-> FALSE]

\* the texts loaded count as the texts on disk
Loaded(S) == [S EXCEPT !.disk = Texts(S.cells)]

\* main up to the call of run: read the file named, if one is, and recalculate
main(f, lines) ==
  Loaded(recalc(IF f # << >> THEN readcsv(Fresh(f, lines), lines) ELSE Fresh(f, lines)))

Startup == [mode |-> "Startup", ch |-> NUL]

\* a session named f that has the texts t and u typed into the cells at i and j
\* and nothing written yet
TypedSession(f, i, j, t, u) ==
  /\ cells = recalc_grid([k \in 0..(NCells - 1) |->
                [text |-> IF k = j THEN u ELSE IF k = i THEN t ELSE << >>,
                 val |-> Zero, hasval |-> FALSE]])
  /\ filename = f /\ dirty = TRUE
  /\ crow = 0 /\ ccol = 0 /\ vrow = 0 /\ vcol = 0 /\ mode = ModeNormal
  /\ editbuf = StrInto(StrInto([k \in 1..CELLTEXT |-> NUL], t), u)
  /\ editlen = Len(u) /\ editpos = Len(u)
  /\ cmdbuf = << >> /\ cmdlen = 0 /\ yankbuf = << >> /\ statusmsg = NoMsg
  /\ running = TRUE /\ disk = [k \in 0..(NCells - 1) |-> << >>] /\ file = << >>
  /\ wrote = FALSE /\ died = FALSE
  /\ nkeys = 0 /\ typed = NoTyped /\ unsaved = TRUE /\ asked = NoAsk
  /\ pressed = NoKey /\ entered = NoEntry

InitCsv ==
  /\ \E place \in CsvPlaces : \E t \in CsvTexts \ {<< >>}, u \in CsvTexts \ {<< >>} :
       TypedSession(Str(<< "f" >>), place[1], place[2], t, u)
  /\ expr = << >> /\ form = NoForm /\ result = NoResult

\* the key Ctrl-S handled in the session that typed the texts
Save ==
  /\ running /\ mode = ModeNormal /\ pressed = NoKey
  /\ nkeys' = nkeys + 1 /\ UNCHANGED evalvars
  /\ \E opens \in BOOLEAN : Handled(normalkey(State, CtrlS, opens), CtrlS, FALSE)
  /\ typed' = NoTyped /\ asked' = NoAsk

\* sheets started again on the file just written
Restart ==
  /\ wrote /\ Becomes(main(filename, file))
  /\ pressed' = Startup /\ entered' = NoEntry
  /\ nkeys' = 0 /\ typed' = NoTyped /\ unsaved' = FALSE /\ asked' = NoAsk
  /\ UNCHANGED evalvars

NextCsv == Save \/ Restart

SpecCsv == InitCsv /\ [][NextCsv]_vars

-----------------------------------------------------------------------------
(* Properties of the session, checked under Spec.                          *)

\* C1: after '=' and printable characters c1..cn typed in Normal mode and
\* confirmed with newline, the text of the cell the cursor was on is exactly
\* '=' c1..cn
TypedFormulaBecomesCellText ==
  typed.phase = "confirmed" => CELL(cells, typed.row, typed.col).text = typed.text

\* C2: with the dirty flag set, the key q and the command q leave the session
\* running and set the status message; the command q! ends the session whether
\* or not the flag is set
UnforcedQuitRefusedWhenDirty ==
  /\ (asked.cmd = CmdQ /\ asked.dirty) => (running /\ statusmsg = MsgUnsaved)
  /\ (asked.cmd = CmdQForce) => ~running

\* a dirty session that has just refused the key q
QuitKeyRefused ==
  asked.by = "key" /\ asked.dirty /\ dirty /\ running /\ statusmsg = MsgUnsaved

\* C3: the command wq confirmed with a file name known writes the grid, clears
\* the dirty flag and ends the session; with no file name it writes nothing,
\* leaves the session running and reports 'no filename'
WriteQuitWritesThenQuits ==
  asked.cmd = CmdWQ =>
    IF asked.named THEN died \/ (wrote /\ ~dirty /\ ~running)
    ELSE ~wrote /\ running /\ statusmsg = MsgNoFilename

\* C4: the dirty flag is set exactly when the grid was mutated (an edit
\* confirmed, a paste of a non-empty yank buffer, a clear) since the last
\* successful write or the load; it is set whenever a cell's text differs from
\* the text last written or loaded, and clear right after a successful write
DirtyIffMutatedSinceWrite ==
  /\ dirty = unsaved
  /\ (Texts(cells) # disk => dirty)
  /\ (wrote => ~dirty /\ Texts(cells) = disk)

\* a session that mutated the grid and has just written it
WrittenAfterMutation ==
  wrote /\ ~dirty /\ ~unsaved /\ disk \notin LoadedTexts

-----------------------------------------------------------------------------
(* Properties of the evaluator, checked under SpecEval. The expected       *)
(* values are computed from the form of the formula, not by parsing it.    *)

\* the value of the cell (r, c) as the evaluator is to read it
CellNumber(g, r, c) == IF CELL(g, r, c).hasval THEN CELL(g, r, c).val ELSE Zero

RECURSIVE SumOf(_, _)
SumOf(g, S) ==
  IF S = {} THEN Zero
  ELSE LET x == CHOOSE x \in S : TRUE
       IN  Add(CellNumber(g, x[1], x[2]), SumOf(g, S \ {x}))

Least(V) == CHOOSE v \in V : \A w \in V : ~Less(w, v)
Greatest(V) == CHOOSE v \in V : \A w \in V : ~Less(v, w)
Lower(a, b) == IF a < b THEN a ELSE b
Upper(a, b) == IF a < b THEN b ELSE a

\* the cells of the rectangle between two corners, whichever comes first
Rectangle(c1, r1, c2, r2) == (Lower(r1, r2)..Upper(r1, r2)) \X (Lower(c1, c2)..Upper(c1, c2))

\* the range function func over the set S of cells
OverCells(g, func, S) ==
  IF func = FuncSUM THEN SumOf(g, S)
  ELSE IF func = FuncAVG THEN Quot(SumOf(g, S), Num(Cardinality(S)))
  ELSE IF func = FuncMIN THEN Least({CellNumber(g, x[1], x[2]) : x \in S})
  ELSE Greatest({CellNumber(g, x[1], x[2]) : x \in S})

\* C5: SUM, AVG, MIN and MAX over P:Q work on the rectangle between the least
\* and greatest row and column of P and Q, whichever corner is written first,
\* and AVG divides the sum by the number of cells of that rectangle
RangeIsRectangleOfCorners ==
  (result.done /\ form.kind = "range") =>
    result.v = OverCells(cells, form.func, Rectangle(form.c1, form.r1, form.c2, form.r2))

\* C6: a cell reference yields 0 when its address is outside the grid, whatever
\* the size of its column name, or its cell is blank or not a number, and the
\* value of its cell otherwise
UnresolvedReferenceIsZero ==
  (result.done /\ form.kind = "ref") =>
    result.v = IF form.col.idx < maxcols /\ form.row < maxrows
               THEN CellNumber(cells, form.row, form.col.idx)
               ELSE Zero

\* a / b, 0 when b is 0
Ratio(a, b) == IF b = Zero THEN Zero ELSE Quot(a, b)

Apply(op, a, b) ==
  IF op = chPlus THEN Add(a, b)
  ELSE IF op = chMinus THEN Sub(a, b)
  ELSE IF op = chStar THEN Mul(a, b)
  ELSE Ratio(a, b)

\* the value of operand (operator operand)* read left to right from the i-th
\* operator on: total is the sum of the terms before the current one, term the
\* current term (negated when it is subtracted)
RECURSIVE Terms(_, _, _, _, _)
Terms(vals, ops, i, total, term) ==
  IF i > Len(ops) THEN Add(total, term)
  ELSE IF ops[i] = chStar THEN Terms(vals, ops, i + 1, total, Mul(term, Num(vals[i + 1])))
  ELSE IF ops[i] = chSlash THEN Terms(vals, ops, i + 1, total, Ratio(term, Num(vals[i + 1])))
  ELSE IF ops[i] = chPlus THEN Terms(vals, ops, i + 1, Add(total, term), Num(vals[i + 1]))
  ELSE Terms(vals, ops, i + 1, Add(total, term), Neg(Num(vals[i + 1])))

Signed1(neg, v) == IF neg THEN Neg(v) ELSE v

ArithValue(f) == Terms(f.vals, f.ops, 1, Zero, Signed1(f.neg, Num(f.vals[1])))
InnerValue(f) == Signed1(f.neg, Apply(f.ops[1], Num(f.vals[1]), Num(f.vals[2])))
GroupValue(f) ==
  IF f.left THEN Apply(f.ops[2], InnerValue(f), Num(f.vals[3]))
  ELSE Apply(f.ops[2], Num(f.vals[3]), InnerValue(f))

OneByZero == Str(<< "1", "/", "0" >>)
MinusGroupTimes == Str(<< "-", "(", "2", "+", "3", ")", "*", "4" >>)

\* C7: a division by a divisor that is 0 yields 0 and the evaluation goes on
\* with it; unary minus binds tighter than * and /, these tighter than + and -,
\* and operators of one level apply left to right; 1/0 is 0, -(2+3)*4 is -20
DivisionByZeroAndPrecedence ==
  result.done =>
    /\ (form.kind = "arith" => result.v = ArithValue(form))
    /\ (form.kind = "group" => result.v = GroupValue(form))
    /\ (expr = OneByZero => result.v = Zero)
    /\ (expr = MinusGroupTimes => result.v = Num(-20))

\* a division by a parenthesized difference that is 0, evaluated: 4/(2-2) is 0
DividedByZeroGroup ==
  /\ result.done /\ form.kind = "group" /\ ~form.left /\ ~form.neg
  /\ form.vals = << 2, 2, 4 >> /\ form.ops = << chMinus, chSlash >>
  /\ expr = Str(<< "4", "/", "(", "2", "-", "2", ")" >>)
  /\ result.v = Zero

\* C8: eval_expr returns a number for every formula; pos never goes past the
\* terminating NUL, and every loop iteration and nested call consumed at least
\* one character
ParseEndsInsideFormula ==
  result.done =>
    /\ result.p >= 1 /\ result.p <= Len(expr) + 1
    /\ result.n <= result.p - 1
    /\ result.v.n \in Int /\ result.v.d \in Nat

\* a formula that ends in an operator inside an open parenthesis, parsed to its NUL
OpenParenthesisParsed ==
  /\ result.done /\ expr = Str(<< "(", "1", "+" >>)
  /\ result.p = 4 /\ result.n = 2

\* C9: an unknown character is skipped, contributing 0 where it stands for an
\* operand, and the operators and operands after it take part in the result
FollowersOfUnknownTakePart ==
  (result.done /\ form.kind = "unknown") =>
    result.v = Apply(form.op, IF form.place = "alone" THEN Zero ELSE Num(form.a), Num(form.b))

\* position of pos after the name and the '(' of the call of the form f
AfterOpen(f) == Len(f.func) + 2

SumBetween(g, f) ==
  IF f.c1 <= f.c2 /\ f.r1 <= f.r2 THEN SumOf(g, (f.r1..f.r2) \X (f.c1..f.c2)) ELSE Zero

-----------------------------------------------------------------------------
(* Properties of the keys, checked under Spec. A step of Spec handles the  *)
(* key pressed' in the mode pressed'.mode.                                  *)

\* the key just handled was ch, handled in mode m
Pressed(m, ch) == pressed.mode = m /\ pressed.ch = ch

\* this step confirms the command buffer
Confirming == pressed'.mode = ModeCommand /\ pressed'.ch \in EnterKeys

\* the number the first k characters of s denote in the radix, zero the
\* character before its first digit
RECURSIVE Radix(_, _, _, _)
Radix(s, k, radix, zero) ==
  IF k = 0 THEN 0 ELSE Radix(s, k - 1, radix, zero) * radix + (s[k] - zero)

\* s is, in full, k uppercase letters followed by one or more digits that
\* denote a cell of the grid
NamesCellAt(s, k) ==
  /\ \A i \in 1..k : isupper(s[i])
  /\ \A i \in (k + 1)..Len(s) : isdigit(s[i])
  /\ Radix(s, k, 26, chA - 1) <= maxcols
  /\ Radix(SubSeq(s, k + 1, Len(s)), Len(s) - k, 10, ch0) \in 1..maxrows

NamesCell(s) == \E k \in 1..(Len(s) - 1) : NamesCellAt(s, k)

\* C11: celladdr succeeds only for a string that is, in full, uppercase
\* letters followed by digits denoting a cell of the grid; a goto command with
\* any other string never moves the cursor
GotoOnlyToNamedCell ==
  [][(Confirming /\ ~NamesCell(cmdbuf)) =>
       (~celladdr(cmdbuf).ok /\ crow' = crow /\ ccol' = ccol)]_vars

\* the text without a leading sign
Unsign(s) == IF s # << >> /\ s[1] \in {chPlus, chMinus} THEN Tail(s) ELSE s

\* the positions of '.' in s
Dots(s) == {i \in 1..Len(s) : s[i] = chDot}

\* s is a decimal number: an optional sign, then digits with at most one '.'
\* among them, and nothing else
IsDecimalText(s) ==
  /\ Cardinality(Dots(Unsign(s))) <= 1
  /\ Len(Unsign(s)) > Cardinality(Dots(Unsign(s)))
  /\ \A i \in 1..Len(Unsign(s)) : i \in Dots(Unsign(s)) \/ isdigit(Unsign(s)[i])

\* the number of digits after the '.' of the unsigned decimal number u
Places(u) == IF Dots(u) = {} THEN 0 ELSE Len(u) - (CHOOSE i \in Dots(u) : TRUE)

\* the number the unsigned decimal number u denotes
UnsignedValue(u) ==
  Frac(Radix(SelectSeq(u, isdigit), Len(u) - Cardinality(Dots(u)), 10, ch0), Pow(10, Places(u)))

\* the number the decimal number s denotes
DecimalValue(s) ==
  IF s[1] = chMinus THEN Neg(UnsignedValue(Unsign(s))) ELSE UnsignedValue(Unsign(s))

\* C12: whenever the main loop waits for input, a cell with empty text has no
\* value, a cell whose text starts with '=' has one, a cell whose text is
\* entirely a decimal number has that number as its value, and a cell with any
\* other text has no value
HasvalFollowsText ==
  \A i \in DOMAIN cells :
    /\ cells[i].text = << >> => ~cells[i].hasval
    /\ At(cells[i].text, 1) = chEquals => cells[i].hasval
    /\ (cells[i].text # << >> /\ IsDecimalText(cells[i].text)) =>
         cells[i].hasval /\ cells[i].val = DecimalValue(cells[i].text)
    /\ (cells[i].text # << >> /\ At(cells[i].text, 1) # chEquals
          /\ ~IsDecimalText(cells[i].text)) => ~cells[i].hasval

\* the keys of normal mode that only move the cursor
NavKeys ==
  {Code("h"), Code("j"), Code("k"), Code("l"), KEY_LEFT, KEY_DOWN, KEY_UP, KEY_RIGHT, TAB,
   KEY_BTAB, Code("g"), Code("G"), ch0, Code("$"), KEY_HOME, KEY_END, KEY_PPAGE, KEY_NPAGE}

\* this step handles a navigation key in normal mode, or confirms a goto command
Navigating ==
  \/ pressed'.mode = ModeNormal /\ pressed'.ch \in NavKeys
  \/ Confirming /\ NamesCell(cmdbuf)

\* C13: a navigation key of normal mode and a goto command run no
\* recalculation: they leave every cell's text, value and validity, the dirty
\* flag and the yank buffer as they were, also when a further pass of recalc
\* would change the value of a formula
NavigationLeavesGrid ==
  [][Navigating => (cells' = cells /\ dirty' = dirty /\ yankbuf' = yankbuf)]_vars

\* the cursor moved down by j over a grid that a further pass of recalc would
\* change: A2 holds =B2 and still the 0 of the pass that had not yet reached B2
MovedOverStaleFormula ==
  /\ Pressed(ModeNormal, Code("j")) /\ crow = 1 /\ ccol = 0
  /\ CELL(cells, 1, 0).text = Str(<< "=", "B", "2" >>) /\ CELL(cells, 1, 0).val = Zero
  /\ CELL(recalc_grid(cells), 1, 0).val = Num(1)

\* C14: Escape in edit mode, after any edit-mode keys that did not confirm,
\* returns to normal mode and leaves every cell's text, value and validity,
\* the dirty flag, the cursor and the yank buffer as they were when edit mode
\* was entered
CancelRestoresEntry ==
  Pressed(ModeEdit, ESC) =>
    /\ mode = ModeNormal /\ entered.at
    /\ cells = entered.cells /\ dirty = entered.dirty
    /\ crow = entered.crow /\ ccol = entered.ccol /\ yankbuf = entered.yankbuf

\* the 1 of A1 opened with e, a 2 typed after it and the edit cancelled
CancelledTypedEdit ==
  /\ Pressed(ModeEdit, ESC) /\ mode = ModeNormal /\ nkeys = 3
  /\ CStr(editbuf) = Str(<< "1", "2" >>)
  /\ crow = 0 /\ ccol = 0 /\ CELL(cells, 0, 0).text = Str(<< "1" >>)
  /\ CELL(cells, 0, 0).val = Num(1) /\ ~dirty

\* the commands q, q!, w, w <filename> and wq, and the goto commands
KnownCommand(cmd) ==
  \/ cmd \in {CmdQ, CmdQForce, Str(<< "w" >>), CmdWQ}
  \/ Len(cmd) >= 3 /\ cmd[1] = chLowW /\ cmd[2] = chSpace
  \/ NamesCell(cmd)

\* C15: confirming a command buffer that is none of q, q!, w, w <filename>, wq
\* and a cell address of the grid gives the status 'unknown command' and
\* returns to normal mode; it does not end the session, write a file, or
\* change the grid, the dirty flag, the file name or the cursor
OtherCommandIsUnknown ==
  [][(Confirming /\ ~KnownCommand(cmdbuf)) =>
       /\ statusmsg' = MsgUnknown(cmdbuf) /\ mode' = ModeNormal
       /\ running' /\ ~wrote' /\ ~died' /\ disk' = disk
       /\ cells' = cells /\ dirty' = dirty /\ filename' = filename
       /\ crow' = crow /\ ccol' = ccol]_vars

\* this step confirms the edit buffer
Committing == pressed'.mode = ModeEdit /\ pressed'.ch \in EnterKeys

\* the grid after the text of the buffer buf was set into the cell at (r, c)
\* and the grid recalculated
Committed(g, r, c, buf) ==
  recalc_grid([g EXCEPT ![r * maxcols + c] =
                 [text |-> Trunc(CStr(buf), CELLTEXT), val |-> Zero, hasval |-> FALSE]])

\* C17: confirming an edit with the cursor at (r, c) sets the text of the
\* buffer into the cell (r, c), recalculates, returns to normal mode and leaves
\* the cursor at (min(r + 1, maxrows - 1), c), inside the grid also when r is
\* the last row
ConfirmCommitsAndMovesDown ==
  [][Committing =>
       /\ cells' = Committed(cells, crow, ccol, editbuf) /\ dirty'
       /\ mode' = ModeNormal /\ ccol' = ccol
       /\ crow' = (IF crow + 1 < maxrows - 1 THEN crow + 1 ELSE maxrows - 1)
       /\ crow' \in 0..(maxrows - 1) /\ ccol' \in 0..(maxcols - 1)]_vars

\* a 2 typed and confirmed on the last row of the first column: the cursor
\* stays on the last row
ConfirmedOnLastRow ==
  /\ Pressed(ModeEdit, NL) /\ mode = ModeNormal /\ entered.at
  /\ entered.crow = maxrows - 1 /\ crow = maxrows - 1 /\ ccol = 0
  /\ CELL(cells, maxrows - 1, 0).text = Str(<< "2" >>)
  /\ CELL(cells, maxrows - 1, 0).val = Num(2) /\ dirty

ClearKeys == {Code("x"), KEY_DC}

\* this step handles the key ch, or one of the keys, in normal mode
Pressing(ch) == pressed'.mode = ModeNormal /\ pressed'.ch = ch
PressingOneOf(keys) == pressed'.mode = ModeNormal /\ pressed'.ch \in keys

\* the text of the cell under the cursor
TextAtCursor == CELL(cells, crow, ccol).text

\* C18: the key x or Delete leaves the cell under the cursor with empty text,
\* no value and val 0 after a recalculation, and the yank buffer with the text
\* the cell had; a paste right after it on the same cell restores that text;
\* a paste with an empty yank buffer changes neither the grid nor the dirty
\* flag; the key y changes only the yank buffer and the status message
ClearYankPaste ==
  [][/\ PressingOneOf(ClearKeys) =>
          /\ cells' = recalc_grid([cells EXCEPT ![crow * maxcols + ccol] = BlankCell])
          /\ CELL(cells', crow, ccol) = BlankCell
          /\ yankbuf' = TextAtCursor /\ dirty'
     /\ (Pressing(Code("p")) /\ pressed.mode = ModeNormal /\ pressed.ch \in ClearKeys) =>
          /\ CELL(cells', crow, ccol).text = yankbuf
          /\ crow' = crow /\ ccol' = ccol /\ yankbuf' = yankbuf
     /\ (Pressing(Code("p")) /\ yankbuf = << >>) => cells' = cells /\ dirty' = dirty
     /\ Pressing(Code("y")) =>
          /\ yankbuf' = TextAtCursor /\ statusmsg' = MsgYanked
          /\ UNCHANGED << cells, filename, dirty, crow, ccol, vrow, vcol, mode, editbuf,
                          editlen, editpos, cmdbuf, cmdlen, running, disk, file, died >>]_vars

\* the 1 of A1 cleared with x: A1 is blank, the yank buffer holds 1 and B1,
\* which holds =A1, is recalculated to 0
ClearedReferencedCell ==
  /\ Pressed(ModeNormal, Code("x")) /\ nkeys = 1 /\ crow = 0 /\ ccol = 0
  /\ CELL(cells, 0, 0) = BlankCell /\ yankbuf = Str(<< "1" >>) /\ dirty
  /\ CELL(cells, 0, 1).text = Str(<< "=", "A", "1" >>) /\ CELL(cells, 0, 1).val = Zero

\* this step recalculates: an edit confirmed, a cell cleared, or a non-empty
\* yank buffer pasted, each into the cell under the cursor
Recalculating ==
  Committing \/ PressingOneOf(ClearKeys) \/ (Pressing(Code("p")) /\ yankbuf # << >>)

\* the cell at index p holds a formula that is the reference to the cell (r, c)
RefersTo(g, p, r, c) == g[p].text = << chEquals >> \o CellName(c, r)

\* what the cell (r, c) gives a formula of this pass at index p that refers
\* to it: its value of this pass when it precedes the formula, else what was
\* stored in it before the pass, which is no value, read as 0, for the cell
\* the step has just set or cleared
SinglePassValue(p, r, c) ==
  IF r * maxcols + c < p THEN CellNumber(cells', r, c)
  ELSE IF r = crow /\ c = ccol THEN Zero
  ELSE CellNumber(cells, r, c)

\* C19: a recalculation is one pass in row-major order without iteration to a
\* fixed point: a formula that refers to the cell Q holds the value of Q of
\* this pass when Q precedes it, and the value and validity stored in Q before
\* the pass when Q follows it or is the formula's own cell; the pass at load
\* finds no value stored in any cell
RecalcIsOneRowMajorPass ==
  [][(nkeys = 0 \/ Recalculating) =>
       \A p \in 0..(NCells - 1), r \in 0..(maxrows - 1), c \in 0..(maxcols - 1) :
         /\ (nkeys = 0 /\ RefersTo(cells, p, r, c)) =>
              cells[p].val = (IF r * maxcols + c < p THEN CellNumber(cells, r, c) ELSE Zero)
         /\ (Recalculating /\ RefersTo(cells', p, r, c)) =>
              cells'[p].hasval /\ cells'[p].val = SinglePassValue(p, r, c)]_vars

\* the 0X1 of B2 replaced by 2: A2, which holds =B2 and precedes B2, is
\* recalculated to 0, the 'no value' the edit left in B2, and not to 2
ForwardReferenceReadStale ==
  /\ Pressed(ModeEdit, NL) /\ nkeys = 5 /\ entered.at /\ entered.crow = 1 /\ entered.ccol = 1
  /\ RefersTo(cells, maxcols, 1, 1) /\ CELL(cells, 1, 0).val = Zero
  /\ CELL(cells, 1, 1).text = Str(<< "2" >>) /\ CELL(cells, 1, 1).val = Num(2)

\* the rows and columns of the grid the terminal shows
VisibleRows == LINES - 2
VisibleCols == (COLS - HEADERW) \div colwidth

\* the position at is among the n positions shown from the origin on
Shows(origin, n, at) == origin >= 0 /\ origin <= at /\ at < origin + n

\* new is, of the origins that show the position at, one nearest to old
NearestShowing(old, new, n, at) ==
  /\ Shows(new, n, at)
  /\ \A v \in 0..at : Shows(v, n, at) => Abs(new - old) <= Abs(v - old)

-----------------------------------------------------------------------------
(* Properties of persistence, checked under SpecCsv.                       *)

\* C16: writing a grid whose texts are strings over an alphabet with the
\* separator and the quote character, then reading the file into a blank
\* grid, reproduces the text of every cell at its row and column
WriteThenReadIsIdentity ==
  [][pressed'.mode = Startup.mode => Texts(cells') = Texts(cells)]_vars

====
